---------------------------- MODULE Spec2Model ----------------------------
(***************************************************************************)
(* The SMS notification dispatch engine of notifications/services.py:      *)
(* SMSService (validators, the two delivery loops, the per-intent senders) *)
(* and the transport make_rest_request of notifications/utils.py.          *)
(*                                                                         *)
(* Python values are records [t, s, n]: t is the type ("none", "str",      *)
(* "num"), s the text of a str, n the value of a number in hundredths (so  *)
(* that two-decimal amounts are exact).  Texts are TLA+ strings.           *)
(***************************************************************************)
EXTENDS Integers, Sequences, FiniteSets, TLC

VARIABLES
    SAVING_API_URL,      \* settings.SAVING_API_URL, read once at import
    SMS_API_KEY,         \* settings.SMS_API_KEY
    SMS_RETRY_ATTEMPTS,  \* settings.SMS_MAX_RETRIES (default 3)
    call,                \* the public operation in progress and its arguments
    pc,                  \* "idle", "awaiting" (transport in flight), "sleeping", "done"
    engine,              \* the delivery function entered: "none", "send_sms", "_send_geezsms"
    started,             \* the pre-checks passed and the retry loop was reached
    attempt,             \* the loop variable of `for attempt in range(...)`
    invocations,         \* calls of make_rest_request made by this dispatch
    saw200,              \* some transport call of this dispatch returned HTTP 200
    sleeps,              \* the durations passed to asyncio.sleep, in order
    request,             \* the url and body built before the loop
    requests,            \* the distinct (url, body) pairs handed to the transport
    response,            \* the outcome of the latest transport call
    result,              \* "none", "true", "false", or "raised" (an exception left the call)
    logged,              \* the log records emitted by the latest step
    sms_requests,        \* send_multiple_sms: the input list
    tasks,               \* send_multiple_sms: the launched flows, in launch order
    results,             \* send_multiple_sms: the dict being filled and returned
    returned,            \* the value a validator or the transport, called on its own, returned
    client,              \* make_rest_request: the httpx.AsyncClient, "none", "open" or "closed"
    sent                 \* make_rest_request: HTTP requests issued through the client

config == <<SAVING_API_URL, SMS_API_KEY, SMS_RETRY_ATTEMPTS>>
flow == <<call, pc, engine, started, attempt, invocations, saw200, sleeps,
          request, requests, response, result, logged>>
bulk == <<sms_requests, tasks, results>>
transport == <<client, sent>>
vars == <<SAVING_API_URL, SMS_API_KEY, SMS_RETRY_ATTEMPTS, call, pc, engine,
          started, attempt, invocations, saw200, sleeps, request, requests,
          response, result, logged, sms_requests, tasks, results, returned,
          client, sent>>

----------------------------------------------------------------------------
(* Bounds of the model and constants of the program. *)

MaxRetries == 6          \* largest configured SMS_MAX_RETRIES explored
BackoffCap == 10
MessageCap == 300
TruncateAt == 297
OK == 200

----------------------------------------------------------------------------
(* Python values. *)

PyNone == [t |-> "none", s |-> "", n |-> 0]
PyStr(x) == [t |-> "str", s |-> x, n |-> 0]
PyNum(k) == [t |-> "num", s |-> "", n |-> k]

\* bool(v): None, "" and 0 are falsy.
Truthy(v) ==
    CASE v.t = "none" -> FALSE
      [] v.t = "str" -> v.s # ""
      [] OTHER -> v.n # 0

IsStr(v) == v.t = "str"

----------------------------------------------------------------------------
(* Text helpers: str methods over the characters the inputs are drawn from. *)

Digits == {"0", "1", "2", "3", "4", "5", "6", "7", "8", "9"}
Whitespace == {" ", "\t", "\n", "\r"}

Char(s, i) == SubSeq(s, i, i)

StartsWith(s, p) == Len(s) >= Len(p) /\ SubSeq(s, 1, Len(p)) = p

Contains(s, sub) ==
    \E i \in 1..(Len(s) - Len(sub) + 1) : SubSeq(s, i, i + Len(sub) - 1) = sub

IsDigit(s) == Len(s) > 0 /\ \A i \in 1..Len(s) : Char(s, i) \in Digits

\* The halves of a text: the str methods below work on halves so that a long
\* text is taken apart in few levels.
Left(s) == SubSeq(s, 1, Len(s) \div 2)
Right(s) == SubSeq(s, Len(s) \div 2 + 1, Len(s))

\* The second text without its first character when both meet in a blank.
Joined(l, r) ==
    IF Len(l) > 0 /\ Len(r) > 0 /\ Char(l, Len(l)) = " " /\ Char(r, 1) = " "
    THEN l \o SubSeq(r, 2, Len(r))
    ELSE l \o r

RECURSIVE LStrip(_)
LStrip(s) ==
    IF Len(s) = 0 THEN ""
    ELSE IF Len(s) = 1 THEN (IF s \in Whitespace THEN "" ELSE s)
    ELSE IF LStrip(Left(s)) = "" THEN LStrip(Right(s))
    ELSE LStrip(Left(s)) \o Right(s)

RECURSIVE RStrip(_)
RStrip(s) ==
    IF Len(s) = 0 THEN ""
    ELSE IF Len(s) = 1 THEN (IF s \in Whitespace THEN "" ELSE s)
    ELSE IF RStrip(Right(s)) = "" THEN RStrip(Left(s))
    ELSE Left(s) \o RStrip(Right(s))

Strip(s) == RStrip(LStrip(s))

\* s.replace(c, r) for a one-character c.
RECURSIVE Replace(_, _, _)
Replace(s, c, r) ==
    IF Len(s) = 0 THEN ""
    ELSE IF Len(s) = 1 THEN (IF s = c THEN r ELSE s)
    ELSE Replace(Left(s), c, r) \o Replace(Right(s), c, r)

\* re.sub(r'\s+', ' ', s): every maximal run of whitespace becomes one space.
RECURSIVE CollapseWhitespace(_)
CollapseWhitespace(s) ==
    IF Len(s) = 0 THEN ""
    ELSE IF Len(s) = 1 THEN (IF s \in Whitespace THEN " " ELSE s)
    ELSE Joined(CollapseWhitespace(Left(s)), CollapseWhitespace(Right(s)))

\* s[:k]
Prefix(s, k) == SubSeq(s, 1, IF Len(s) < k THEN Len(s) ELSE k)

Min(a, b) == IF a < b THEN a ELSE b

----------------------------------------------------------------------------
(* Validator. *)

\* Mutant of _validate_phone: `len(phone_clean) > 9`.
_validate_phone_TooLong(phone) ==
    IF ~Truthy(phone) \/ ~IsStr(phone) THEN FALSE
    ELSE LET stripped == Replace(Strip(phone.s), " ", "")
             phone_clean == IF StartsWith(stripped, "+")
                            THEN SubSeq(stripped, 2, Len(stripped))
                            ELSE stripped
         IN Len(phone_clean) > 9 /\ IsDigit(phone_clean)

_validate_phone(phone) ==
    IF ~Truthy(phone) \/ ~IsStr(phone) THEN FALSE
    ELSE LET stripped == Replace(Strip(phone.s), " ", "")
             phone_clean == IF StartsWith(stripped, "+")
                            THEN SubSeq(stripped, 2, Len(stripped))
                            ELSE stripped
         IN Len(phone_clean) >= 9 /\ IsDigit(phone_clean)

\* Mutant of _validate_message: the text is cut and no marker is appended.
_validate_message_NoMarker(message) ==
    IF ~Truthy(message) \/ ~IsStr(message) THEN ""
    ELSE LET collapsed == CollapseWhitespace(Strip(message.s))
             capped == IF Len(collapsed) > MessageCap
                       THEN SubSeq(collapsed, 1, TruncateAt)
                       ELSE collapsed
         IN Replace(Replace(Replace(capped, "\n", " "), "\r", " "), "\t", " ")

\* Mutant of _validate_message: the text is cut at the cap, `message[:300]`.
_validate_message_CutAtCap(message) ==
    IF ~Truthy(message) \/ ~IsStr(message) THEN ""
    ELSE LET collapsed == CollapseWhitespace(Strip(message.s))
             capped == IF Len(collapsed) > MessageCap
                       THEN SubSeq(collapsed, 1, MessageCap) \o "..."
                       ELSE collapsed
         IN Replace(Replace(Replace(capped, "\n", " "), "\r", " "), "\t", " ")

_validate_message(message) ==
    IF ~Truthy(message) \/ ~IsStr(message) THEN ""
    ELSE LET collapsed == CollapseWhitespace(Strip(message.s))
             capped == IF Len(collapsed) > MessageCap
                       THEN SubSeq(collapsed, 1, TruncateAt) \o "..."
                       ELSE collapsed
         IN Replace(Replace(Replace(capped, "\n", " "), "\r", " "), "\t", " ")

\* Mutant of _normalize_ethiopian_phone: the final check of the mapped value
\* is left out.
_normalize_ethiopian_phone_Unverified(phone) ==
    LET stripped == Replace(Replace(Strip(phone), " ", ""), "-", "")
        phone_clean == IF StartsWith(stripped, "+")
                       THEN SubSeq(stripped, 2, Len(stripped))
                       ELSE stripped
    IN IF StartsWith(phone_clean, "251") THEN PyStr(phone_clean)
       ELSE IF StartsWith(phone_clean, "0")
            THEN PyStr("251" \o SubSeq(phone_clean, 2, Len(phone_clean)))
       ELSE IF StartsWith(phone_clean, "9") /\ Len(phone_clean) = 9
            THEN PyStr("251" \o phone_clean)
       ELSE PyNone

\* The value _normalize_ethiopian_phone returns for a str: the normalized
\* text, or PyNone.
_normalize_ethiopian_phone(phone) ==
    LET stripped == Replace(Replace(Strip(phone), " ", ""), "-", "")
        phone_clean == IF StartsWith(stripped, "+")
                       THEN SubSeq(stripped, 2, Len(stripped))
                       ELSE stripped
        mapped ==
            IF StartsWith(phone_clean, "251") THEN PyStr(phone_clean)
            ELSE IF StartsWith(phone_clean, "0")
                 THEN PyStr("251" \o SubSeq(phone_clean, 2, Len(phone_clean)))
            ELSE IF StartsWith(phone_clean, "9") /\ Len(phone_clean) = 9
                 THEN PyStr("251" \o phone_clean)
            ELSE PyNone
    IN IF mapped = PyNone THEN PyNone
       ELSE IF StartsWith(mapped.s, "2519") /\ Len(mapped.s) = 12 THEN mapped
       ELSE PyNone

\* The warning _normalize_ethiopian_phone logs when it rejects `phone`.
NormalizeLog(phone) ==
    IF _normalize_ethiopian_phone(phone) # PyNone THEN <<>>
    ELSE LET stripped == Replace(Replace(Strip(phone), " ", ""), "-", "")
             phone_clean == IF StartsWith(stripped, "+")
                            THEN SubSeq(stripped, 2, Len(stripped))
                            ELSE stripped
             recognised == StartsWith(phone_clean, "251")
                           \/ StartsWith(phone_clean, "0")
                           \/ (StartsWith(phone_clean, "9") /\ Len(phone_clean) = 9)
         IN <<[level |-> "warning",
               event |-> IF recognised THEN "invalid_ethiopian_format"
                         ELSE "unable_to_normalize",
               text |-> phone]>>

----------------------------------------------------------------------------
(* Amounts.  A number is held in hundredths; float() of a str accepts an    *)
(* optional sign, digits and an optional point with at most two decimals,  *)
(* which covers the numeric texts the inputs are drawn from.               *)

DigitVal(c) == CHOOSE d \in 0..9 : Char("0123456789", d + 1) = c

RECURSIVE DigitsVal(_)
DigitsVal(s) ==
    IF Len(s) = 0 THEN 0
    ELSE 10 * DigitsVal(SubSeq(s, 1, Len(s) - 1)) + DigitVal(Char(s, Len(s)))

AllDigits(s) == \A i \in 1..Len(s) : Char(s, i) \in Digits

\* float(s) for a str s: [ok |-> FALSE] stands for ValueError.
FloatOfStr(s) ==
    LET Parsed(neg, whole, frac, points) ==
            IF /\ points <= 1
               /\ AllDigits(whole) /\ AllDigits(frac)
               /\ Len(whole) + Len(frac) > 0
               /\ Len(frac) <= 2
            THEN [ok |-> TRUE,
                  n |-> (IF neg THEN 0 - 1 ELSE 1)
                        * (100 * DigitsVal(whole)
                           + (IF Len(frac) = 1 THEN 10 ELSE 1) * DigitsVal(frac))]
            ELSE [ok |-> FALSE, n |-> 0]
        SplitAt(neg, body, dots, dot) ==
            Parsed(neg, SubSeq(body, 1, dot - 1), SubSeq(body, dot + 1, Len(body)),
                   Cardinality(dots))
        Pointed(neg, body, dots) ==
            SplitAt(neg, body, dots,
                    IF dots = {} THEN Len(body) + 1 ELSE CHOOSE i \in dots : TRUE)
        Unmarked(neg, body) ==
            Pointed(neg, body, {i \in 1..Len(body) : Char(body, i) = "."})
        Signed(t) ==
            Unmarked(StartsWith(t, "-"),
                     IF StartsWith(t, "-") \/ StartsWith(t, "+")
                     THEN SubSeq(t, 2, Len(t)) ELSE t)
    IN Signed(Strip(s))

\* float(v): a number is itself, a str is parsed, None raises TypeError.
FloatOf(v) ==
    CASE v.t = "num" -> [ok |-> TRUE, n |-> v.n]
      [] v.t = "str" -> FloatOfStr(v.s)
      [] OTHER -> [ok |-> FALSE, n |-> 0]

RECURSIVE NatToStr(_)
NatToStr(k) ==
    IF k < 10 THEN Char("0123456789", k + 1)
    ELSE NatToStr(k \div 10) \o Char("0123456789", (k % 10) + 1)

\* The "," grouping of the format spec ",.2f".
RECURSIVE GroupThousands(_)
GroupThousands(s) ==
    IF Len(s) <= 3 THEN s
    ELSE GroupThousands(SubSeq(s, 1, Len(s) - 3)) \o ","
         \o SubSeq(s, Len(s) - 2, Len(s))

FormatCents(c) ==
    LET a == IF c < 0 THEN 0 - c ELSE c
    IN (IF c < 0 THEN "-" ELSE "")
       \o GroupThousands(NatToStr(a \div 100)) \o "."
       \o NatToStr((a % 100) \div 10) \o NatToStr(a % 10)

_format_amount(amount) ==
    LET Formatted(f) == IF f.ok THEN FormatCents(f.n) ELSE "0.00"
    IN Formatted(FloatOf(amount))

----------------------------------------------------------------------------
(* Reference generator. *)

Stamps == {"20250101120000000"}
Suffixes == {"a1b2c3d4", "0f0f0f0f"}

\* f"{prefix}_{timestamp}_{random_suffix}" for the clock reading and the
\* uuid4 draw of the call.
_generate_reference(prefix, stamp, suffix) ==
    PyStr(prefix \o "_" \o stamp \o "_" \o suffix)

----------------------------------------------------------------------------
(* Payload builder: a dict is a function from its keys to Python values. *)

DictUpdate(d, e) ==
    [k \in DOMAIN d \cup DOMAIN e |-> IF k \in DOMAIN e THEN e[k] ELSE d[k]]

With(d, key, value) == DictUpdate(d, [k \in {key} |-> value])

deposit_payload(phone, amount, balance, product_name, bank_name, customer_name) ==
    LET base == [phone |-> phone,
                 transaction_type |-> PyStr("DEPOSIT"),
                 amount |-> PyStr(_format_amount(amount)),
                 product_name |-> product_name,
                 saving_balance |-> PyStr(_format_amount(balance)),
                 bank_name |-> bank_name,
                 type |-> PyStr("deposit_confirmation")]
    IN IF Truthy(customer_name) THEN With(base, "customer_name", customer_name)
       ELSE base

\* The payload send_withdrawal_sms builds when float(fee_amount) does not raise.
withdrawal_payload(phone, amount, balance, product_name, bank_name, fee_amount, customer_name) ==
    LET base == [phone |-> phone,
                 transaction_type |-> PyStr("WITHDRAWAL"),
                 amount |-> PyStr(_format_amount(amount)),
                 product_name |-> product_name,
                 saving_balance |-> PyStr(_format_amount(balance)),
                 bank_name |-> bank_name,
                 type |-> PyStr("withdrawal_confirmation")]
        withFee == IF Truthy(fee_amount) /\ FloatOf(fee_amount).n > 0
                   THEN With(base, "fee_amount", PyStr(_format_amount(fee_amount)))
                   ELSE base
    IN IF Truthy(customer_name) THEN With(withFee, "customer_name", customer_name)
       ELSE withFee

transfer_payload(amount, debit_product, credit_product, debit_balance, credit_balance, bank_name, recipient_name) ==
    LET base == [transaction_type |-> PyStr("TRANSFER"),
                 amount |-> PyStr(_format_amount(amount)),
                 debit_product_name |-> debit_product,
                 credit_product_name |-> credit_product,
                 saving_balance |-> PyStr(_format_amount(debit_balance)),
                 credit_saving_balance |-> PyStr(_format_amount(credit_balance)),
                 bank_name |-> bank_name,
                 type |-> PyStr("transfer_confirmation")]
    IN IF Truthy(recipient_name) THEN With(base, "recipient_name", recipient_name)
       ELSE base

\* The payload of send_joint_invitation_sms; expires_days is a number of days
\* or None.
joint_invitation_payload(phone, inviter_name, account_name, product_name, expires_days) ==
    LET message == "You've been invited by " \o inviter_name.s
                   \o " to join joint account '" \o account_name.s \o "'"
                   \o (IF Truthy(expires_days)
                       THEN ". Expires in " \o NatToStr(expires_days.n \div 100) \o " days"
                       ELSE "")
        base == [phone |-> phone,
                 message |-> PyStr(message),
                 type |-> PyStr("joint_invitation"),
                 inviter_name |-> inviter_name,
                 account_name |-> account_name,
                 expires_days |-> expires_days]
    IN IF Truthy(product_name) THEN With(base, "product_name", product_name)
       ELSE base

custom_payload(phone, clean_message, message_type, additional_data) ==
    LET base == [phone |-> phone,
                 message |-> PyStr(clean_message),
                 type |-> message_type]
    IN IF additional_data = PyNone THEN base
       ELSE DictUpdate(base, additional_data)

----------------------------------------------------------------------------
(* Configuration and inputs. *)

GenericUrl == "https://sms.saving.example/api"
GeezUrl == "https://api.geezsms.com/api/v1/sms/send"

UrlValues == {PyNone, PyStr(""), PyStr(GenericUrl), PyStr(GeezUrl)}
KeyValues == {PyNone, PyStr(""), PyStr("tok-5f2a")}
RetryValues == (0 - 1)..MaxRetries

PhoneTexts == {"+251911223344", "0911223344", "911223344", "1234567890",
               "12345", "0911-223-344", "25191122334"}
PhoneArgs == {PyNone, PyStr(""), PyNum(911223344)} \cup {PyStr(p) : p \in PhoneTexts}
FewPhoneArgs == {PyNone, PyStr(""), PyStr("0911223344"), PyStr("12345")}

MessageArgs == {PyNone, PyNum(7), PyStr(""), PyStr(" \n\t "),
                PyStr("Your code is 4821"), PyStr("  Balance:\n 1,500.00 ETB \t")}

AmountArgs == {PyNum(123450), PyStr("bad")}
FeeArgs == {PyNone, PyNum(0), PyNum(250), PyStr("2.5"), PyStr("abc")}
NameArgs == {PyNone, PyStr("Abebe")}
AdditionalData ==
    {PyNone,
     [phone |-> PyStr("0999999999"), campaign |-> PyStr("promo")],
     [message |-> PyStr("FREE \n"), type |-> PyStr("promo")]}
CallerReferences == {PyStr("TXN_1001")}
DirectPayloads == {[message |-> PyStr("hello"), type |-> PyStr("notification")]}

----------------------------------------------------------------------------
(* Transport: what awaiting wait_for(make_rest_request(...), SMS_TIMEOUT)   *)
(* can produce.  make_rest_request returns the response of its one request *)
(* whatever its status, or None when the request raised; wait_for raises   *)
(* TimeoutError when the call outlives the timeout.                       *)

Response(status, text) == [kind |-> "response", status |-> status, text |-> text]
NoResponse == [kind |-> "none", status |-> 0, text |-> ""]
TimedOut == [kind |-> "timeout", status |-> 0, text |-> ""]
NoCall == [kind |-> "nocall", status |-> 0, text |-> ""]

JsonBody == "{\"status\":\"sent\"}"
TextBody == "OK"

make_rest_request ==
    {Response(OK, ""), Response(OK, JsonBody), Response(OK, TextBody),
     Response(201, JsonBody), Response(500, "Internal Server Error"),
     NoResponse}

TransportOutcomes == make_rest_request \cup {TimedOut}

\* response.json() raises for a body that is not JSON.
JsonRaises(text) == text \notin {JsonBody}

----------------------------------------------------------------------------
(* Delivery engine. *)

Log(level, event, text) == [level |-> level, event |-> event, text |-> text]

\* The text "%s" or an f-string shows for a value.
Shown(v) ==
    CASE v.t = "none" -> "None"
      [] v.t = "str" -> v.s
      [] OTHER -> "<number>"

UrlConfigured == Truthy(SAVING_API_URL)

\* Mutant of KeyConfigured: the API key is never checked.
KeyConfigured_Unchecked == TRUE

KeyConfigured == Truthy(SMS_API_KEY)

\* `SAVING_API_URL and "geezsms.com" in SAVING_API_URL`
UsesGeez == Truthy(SAVING_API_URL) /\ Contains(SAVING_API_URL.s, "geezsms.com")

\* Mutant of RetryRange: one iteration too many.
RetryRange_OffByOne == 0..SMS_RETRY_ATTEMPTS

\* range(SMS_RETRY_ATTEMPTS)
RetryRange == 0..(SMS_RETRY_ATTEMPTS - 1)

\* Mutant of IsSuccess: any 2xx status counts as delivered.
IsSuccess_Any2xx(r) == r.kind = "response" /\ r.status >= 200 /\ r.status < 300

\* `response and response.status_code == 200`
IsSuccess(r) == r.kind = "response" /\ r.status = OK

\* Mutant of SleepsAfter: the next attempt follows without a back-off.
SleepsAfter_NoBackoff(a) == FALSE

\* `if attempt < SMS_RETRY_ATTEMPTS - 1`
SleepsAfter(a) == a < SMS_RETRY_ATTEMPTS - 1

\* min(2 ** attempt, 10)
Backoff(a) == Min(2 ^ a, BackoffCap)

NoRequest == [method |-> "", url |-> "", body |-> <<>>]

\* The masked phone of the log records of _send_geezsms.
Masked(req) == Prefix(req.body.phone.s, 8) \o "****"

ExhaustedLog(eng, req) ==
    IF eng = "send_sms"
    THEN Log("error", "all_attempts_failed", "")
    ELSE Log("error", "all_attempts_failed", Masked(req))

\* A call that ends before the retry loop.
Finish(eng, res, logs) ==
    /\ pc' = "done"
    /\ engine' = eng
    /\ started' = FALSE
    /\ result' = res
    /\ logged' = logs
    /\ UNCHANGED <<attempt, invocations, saw200, sleeps, request, requests, response>>

\* The pre-checks passed: the request is built and the loop is entered.  With
\* an empty range the loop body never runs and control falls to the
\* "all attempts failed" return.
Begin(eng, req, logs) ==
    /\ engine' = eng
    /\ started' = TRUE
    /\ request' = req
    /\ attempt' = 0
    /\ UNCHANGED <<saw200, sleeps, response>>
    /\ IF 0 \in RetryRange
       THEN /\ pc' = "awaiting"
            /\ invocations' = invocations + 1
            /\ requests' = requests \cup {req}
            /\ result' = "none"
            /\ logged' = logs
       ELSE /\ pc' = "done"
            /\ result' = "false"
            /\ logged' = logs \o <<ExhaustedLog(eng, req)>>
            /\ UNCHANGED <<invocations, requests>>

\* send_sms, up to its first await.
SendSmsEnter(reference, payload, phone) ==
    IF ~UrlConfigured
    THEN Finish("send_sms", "false", <<Log("error", "config_error", "")>>)
    ELSE IF Truthy(phone) /\ ~_validate_phone(phone)
    THEN Finish("send_sms", "false",
                <<Log("warning", "invalid_phone", Shown(phone))>>)
    ELSE Begin("send_sms",
               [method |-> "POST",
                url |-> SAVING_API_URL.s \o "/send_sms",
                body |-> [reference |-> reference, payload |-> payload]],
               <<Log("info", "sending",
                     IF Truthy(phone) THEN Shown(phone) ELSE "in_payload")>>)

\* Mutant of GeezEnter: the phone is sent as it was passed, not as normalized.
GeezEnter_RawPhone(phone, message) ==
    IF ~KeyConfigured
    THEN Finish("_send_geezsms", "false", <<Log("error", "config_error", "")>>)
    ELSE IF _normalize_ethiopian_phone(phone) = PyNone
    THEN Finish("_send_geezsms", "false",
                NormalizeLog(phone) \o <<Log("error", "normalize_failed", phone)>>)
    ELSE Begin("_send_geezsms",
               [method |-> "POST",
                url |-> SAVING_API_URL.s,
                body |-> [token |-> SMS_API_KEY,
                          phone |-> PyStr(phone),
                          msg |-> PyStr(message)]],
               <<Log("info", "sending",
                     Prefix(_normalize_ethiopian_phone(phone).s, 8) \o "****")>>)

\* _send_geezsms, up to its first await; phone and message are texts.
GeezEnter(phone, message) ==
    IF ~KeyConfigured
    THEN Finish("_send_geezsms", "false", <<Log("error", "config_error", "")>>)
    ELSE IF _normalize_ethiopian_phone(phone) = PyNone
    THEN Finish("_send_geezsms", "false",
                NormalizeLog(phone) \o <<Log("error", "normalize_failed", phone)>>)
    ELSE Begin("_send_geezsms",
               [method |-> "POST",
                url |-> SAVING_API_URL.s,
                body |-> [token |-> SMS_API_KEY,
                          phone |-> _normalize_ethiopian_phone(phone),
                          msg |-> PyStr(message)]],
               <<Log("info", "sending",
                     Prefix(_normalize_ethiopian_phone(phone).s, 8) \o "****")>>)

\* send_custom_sms, up to its first await.
CustomEnter(phone, message, message_type, additional_data, stamp, suffix) ==
    IF ~_validate_phone(phone)
    THEN Finish("none", "false",
                <<Log("warning", "custom_invalid_phone", Shown(phone))>>)
    ELSE IF _validate_message(message) = ""
    THEN Finish("none", "false",
                <<Log("warning", "custom_empty_message", Prefix(phone.s, 4) \o "***")>>)
    ELSE IF UsesGeez
    THEN GeezEnter(phone.s, _validate_message(message))
    ELSE SendSmsEnter(_generate_reference("CUSTOM", stamp, suffix),
                      custom_payload(phone, _validate_message(message),
                                     message_type, additional_data),
                      phone)

----------------------------------------------------------------------------
(* State machine. *)

Args(op, phone, message, fee_amount) ==
    [op |-> op, phone |-> phone, message |-> message, fee_amount |-> fee_amount]

NoArgs == Args("none", PyNone, PyNone, PyNone)

MessageTypes == {PyStr("alert")}
FixedAmount == PyNum(123450)
FixedBalance == PyNum(1000000)
ProductName == PyStr("Regular Saving")
OtherProduct == PyStr("Fixed Deposit")
BankName == PyStr("Abay Bank")

Init ==
    /\ SAVING_API_URL \in UrlValues
    /\ SMS_API_KEY \in KeyValues
    /\ SMS_RETRY_ATTEMPTS \in RetryValues
    /\ call = NoArgs
    /\ pc = "idle"
    /\ engine = "none"
    /\ started = FALSE
    /\ attempt = 0
    /\ invocations = 0
    /\ saw200 = FALSE
    /\ sleeps = <<>>
    /\ request = NoRequest
    /\ requests = {}
    /\ response = NoCall
    /\ result = "none"
    /\ logged = <<>>
    /\ sms_requests = <<>>
    /\ tasks = <<>>
    /\ results = <<>>
    /\ returned = PyNone
    /\ client = "none"
    /\ sent = 0

\* An exception leaves the public call before any delivery function is entered.
Raise == Finish("none", "raised", <<>>)

SendSms ==
    /\ pc = "idle"
    /\ \E reference \in CallerReferences, payload \in DirectPayloads, phone \in PhoneArgs :
          /\ call' = Args("send_sms", phone, PyNone, PyNone)
          /\ SendSmsEnter(reference, payload, phone)
    /\ UNCHANGED config
    /\ UNCHANGED <<bulk, returned, transport>>

SendDepositSms ==
    /\ pc = "idle"
    /\ \E phone \in PhoneArgs, customer_name \in NameArgs, reference \in CallerReferences :
          /\ call' = Args("send_deposit_sms", phone, PyNone, PyNone)
          /\ SendSmsEnter(reference,
                          deposit_payload(phone, FixedAmount, FixedBalance,
                                          ProductName, BankName, customer_name),
                          phone)
    /\ UNCHANGED config
    /\ UNCHANGED <<bulk, returned, transport>>

\* `if fee_amount and float(fee_amount) > 0` is outside any try: float() of a
\* non-numeric str raises ValueError to the caller.
SendWithdrawalSms ==
    /\ pc = "idle"
    /\ \E phone \in FewPhoneArgs, amount \in AmountArgs, fee_amount \in FeeArgs,
          reference \in CallerReferences :
          /\ call' = Args("send_withdrawal_sms", phone, PyNone, fee_amount)
          /\ IF Truthy(fee_amount) /\ ~FloatOf(fee_amount).ok
             THEN Raise
             ELSE SendSmsEnter(reference,
                               withdrawal_payload(phone, amount, FixedBalance,
                                                  ProductName, BankName,
                                                  fee_amount, PyNone),
                               phone)
    /\ UNCHANGED config
    /\ UNCHANGED <<bulk, returned, transport>>

SendTransferSms ==
    /\ pc = "idle"
    /\ \E phone \in FewPhoneArgs, recipient_name \in NameArgs,
          reference \in CallerReferences :
          /\ call' = Args("send_transfer_sms", phone, PyNone, PyNone)
          /\ SendSmsEnter(reference,
                          transfer_payload(FixedAmount, ProductName, OtherProduct,
                                           FixedBalance, FixedBalance, BankName,
                                           recipient_name),
                          phone)
    /\ UNCHANGED config
    /\ UNCHANGED <<bulk, returned, transport>>

SendCustomSms ==
    /\ pc = "idle"
    /\ \E phone \in PhoneArgs, message \in MessageArgs, message_type \in MessageTypes,
          additional_data \in AdditionalData, stamp \in Stamps, suffix \in Suffixes :
          /\ call' = Args("send_custom_sms", phone, message, PyNone)
          /\ CustomEnter(phone, message, message_type, additional_data, stamp, suffix)
    /\ UNCHANGED config
    /\ UNCHANGED <<bulk, returned, transport>>

\* `phone[:4]` in the empty-message warning raises TypeError for a phone that
\* is not a str; nothing catches it.
SendNotificationSms ==
    /\ pc = "idle"
    /\ \E phone \in PhoneArgs, message \in MessageArgs, stamp \in Stamps,
          suffix \in Suffixes :
          /\ call' = Args("send_notification_sms", phone, message, PyNone)
          /\ IF _validate_message(message) = ""
             THEN IF IsStr(phone)
                  THEN Finish("none", "false",
                              <<Log("warning", "empty_message",
                                    Prefix(phone.s, 4) \o "***")>>)
                  ELSE Raise
             ELSE CustomEnter(phone, PyStr(_validate_message(message)),
                              PyStr("notification"), PyNone, stamp, suffix)
    /\ UNCHANGED config
    /\ UNCHANGED <<bulk, returned, transport>>

\* The arguments of send_joint_invitation_sms.
JointArgs(phone, product_name, expires_days) ==
    [op |-> "send_joint_invitation_sms", phone |-> phone, message |-> PyNone,
     fee_amount |-> PyNone, product_name |-> product_name,
     expires_days |-> expires_days]

ProductArgs == {PyNone, PyStr(""), ProductName}
ExpiresArgs == {PyNone, PyNum(0), PyNum(700)}

SendJointInvitationSms ==
    /\ pc = "idle"
    /\ \E phone \in FewPhoneArgs, product_name \in ProductArgs,
          expires_days \in ExpiresArgs, stamp \in Stamps :
          /\ call' = JointArgs(phone, product_name, expires_days)
          /\ SendSmsEnter(_generate_reference("JA_INV", stamp, "a1b2c3d4"),
                          joint_invitation_payload(phone, PyStr("Abebe"),
                                                   PyStr("Family"), product_name,
                                                   expires_days),
                          phone)
    /\ UNCHANGED config
    /\ UNCHANGED <<bulk, returned, transport>>

\* Whether the loop body treats the outcome r as a delivered message: HTTP 200,
\* and on the GeezSMS path `response.json() if response.text else {}` did not
\* raise inside the attempt's try block.
Delivered(r) ==
    /\ IsSuccess(r)
    /\ engine = "_send_geezsms" => (r.text = "" \/ ~JsonRaises(r.text))

\* The records of one attempt: those of the loop body and, when the transport
\* returned None, the error make_rest_request logged before it did.
AttemptLogs(r) ==
    IF Delivered(r)
    THEN IF engine = "send_sms"
         THEN <<Log("info", "sent", "")>>
         ELSE <<Log("info", "api_response", ""), Log("info", "sent", Masked(request))>>
    ELSE IF r.kind = "timeout" \/ IsSuccess(r)
    THEN <<Log("error", "attempt_error", "")>>
    ELSE IF r.kind = "none"
    THEN <<Log("error", "request_failed", ""), Log("warning", "attempt_failed", "")>>
    ELSE <<Log("warning", "attempt_failed", "")>>

\* The awaited transport call of the current attempt completes and the loop
\* body runs to its next await or to a return.
TransportReturns ==
    /\ pc = "awaiting"
    /\ \E r \in TransportOutcomes :
          /\ response' = r
          /\ saw200' = (saw200 \/ (r.kind = "response" /\ r.status = OK))
          /\ IF Delivered(r)
             THEN /\ pc' = "done"
                  /\ result' = "true"
                  /\ logged' = AttemptLogs(r)
                  /\ UNCHANGED <<attempt, invocations, sleeps, requests>>
             ELSE IF SleepsAfter(attempt)
             THEN /\ pc' = "sleeping"
                  /\ sleeps' = Append(sleeps, Backoff(attempt))
                  /\ logged' = AttemptLogs(r)
                  /\ UNCHANGED <<attempt, invocations, requests, result>>
             ELSE IF attempt + 1 \in RetryRange
             THEN /\ pc' = "awaiting"
                  /\ attempt' = attempt + 1
                  /\ invocations' = invocations + 1
                  /\ requests' = requests \cup {request}
                  /\ logged' = AttemptLogs(r)
                  /\ UNCHANGED <<sleeps, result>>
             ELSE /\ pc' = "done"
                  /\ result' = "false"
                  /\ logged' = AttemptLogs(r) \o <<ExhaustedLog(engine, request)>>
                  /\ UNCHANGED <<attempt, invocations, sleeps, requests>>
    /\ UNCHANGED <<call, engine, started, request>>
    /\ UNCHANGED config
    /\ UNCHANGED <<bulk, returned, transport>>

\* Mutant of SleepElapsed: the request of a retry is rebuilt, with a reference
\* generated anew.
SleepElapsed_NewReference ==
    /\ pc = "sleeping"
    /\ IF attempt + 1 \in RetryRange
       THEN /\ pc' = "awaiting"
            /\ attempt' = attempt + 1
            /\ invocations' = invocations + 1
            /\ request' = [request EXCEPT !.body =
                              With(@, "reference", _generate_reference("RETRY", "20250101120001000", "c0ffee00"))]
            /\ requests' = requests \cup {request'}
            /\ logged' = <<>>
            /\ UNCHANGED result
       ELSE /\ pc' = "done"
            /\ result' = "false"
            /\ logged' = <<ExhaustedLog(engine, request)>>
            /\ UNCHANGED <<attempt, invocations, request, requests>>
    /\ UNCHANGED <<call, engine, started, saw200, sleeps, response>>
    /\ UNCHANGED config
    /\ UNCHANGED <<bulk, returned, transport>>

\* Mutant of SleepElapsed: the loop variable advances by two, so an attempt
\* number is skipped.
SleepElapsed_SkipsAttempt ==
    /\ pc = "sleeping"
    /\ IF attempt + 1 \in RetryRange
       THEN /\ pc' = "awaiting"
            /\ attempt' = attempt + 2
            /\ invocations' = invocations + 1
            /\ requests' = requests \cup {request}
            /\ logged' = <<>>
            /\ UNCHANGED result
       ELSE /\ pc' = "done"
            /\ result' = "false"
            /\ logged' = <<ExhaustedLog(engine, request)>>
            /\ UNCHANGED <<attempt, invocations, requests>>
    /\ UNCHANGED <<call, engine, started, saw200, sleeps, request, response>>
    /\ UNCHANGED config
    /\ UNCHANGED <<bulk, returned, transport>>

\* Mutant of SleepElapsed: the loop variable does not advance, so the same
\* attempt number is tried again.
SleepElapsed_SameAttempt ==
    /\ pc = "sleeping"
    /\ pc' = "awaiting"
    /\ invocations' = invocations + 1
    /\ requests' = requests \cup {request}
    /\ logged' = <<>>
    /\ UNCHANGED <<call, engine, started, attempt, saw200, sleeps, request,
                   response, result>>
    /\ UNCHANGED config
    /\ UNCHANGED <<bulk, returned, transport>>

\* asyncio.sleep returns and the loop goes to its next iteration.
SleepElapsed ==
    /\ pc = "sleeping"
    /\ IF attempt + 1 \in RetryRange
       THEN /\ pc' = "awaiting"
            /\ attempt' = attempt + 1
            /\ invocations' = invocations + 1
            /\ requests' = requests \cup {request}
            /\ logged' = <<>>
            /\ UNCHANGED result
       ELSE /\ pc' = "done"
            /\ result' = "false"
            /\ logged' = <<ExhaustedLog(engine, request)>>
            /\ UNCHANGED <<attempt, invocations, requests>>
    /\ UNCHANGED <<call, engine, started, saw200, sleeps, request, response>>
    /\ UNCHANGED config
    /\ UNCHANGED <<bulk, returned, transport>>

\* The caller has the result; the service keeps no state between calls.
Return ==
    /\ pc = "done"
    /\ call' = NoArgs
    /\ pc' = "idle"
    /\ engine' = "none"
    /\ started' = FALSE
    /\ attempt' = 0
    /\ invocations' = 0
    /\ saw200' = FALSE
    /\ sleeps' = <<>>
    /\ request' = NoRequest
    /\ requests' = {}
    /\ response' = NoCall
    /\ result' = "none"
    /\ logged' = <<>>
    /\ sms_requests' = <<>>
    /\ tasks' = <<>>
    /\ results' = <<>>
    /\ returned' = PyNone
    /\ client' = "none"
    /\ sent' = 0
    /\ UNCHANGED config

Next ==
    \/ SendSms
    \/ SendDepositSms
    \/ SendWithdrawalSms
    \/ SendTransferSms
    \/ SendCustomSms
    \/ SendNotificationSms
    \/ SendJointInvitationSms
    \/ TransportReturns
    \/ SleepElapsed
    \/ Return

Spec == Init /\ [][Next]_vars

\* Every awaited transport call ends (wait_for bounds it by SMS_TIMEOUT) and
\* every asyncio.sleep of the back-off elapses.  Starting a call and taking
\* its result are the caller's choice.
FairSpec ==
    /\ Init /\ [][Next]_vars
    /\ WF_vars(TransportReturns)
    /\ WF_vars(SleepElapsed)

----------------------------------------------------------------------------
(* Properties. *)

Got200 == response.kind = "response" /\ response.status = OK
GeezConfigured == IsStr(SAVING_API_URL) /\ Contains(SAVING_API_URL.s, "geezsms.com")
Unnormalizable(phone) ==
    IsStr(phone) /\ phone.s # "" /\ _normalize_ethiopian_phone(phone.s) = PyNone

\* The custom senders and the typed per-intent senders.
IntentSenders == {"send_custom_sms", "send_notification_sms", "send_deposit_sms",
                  "send_withdrawal_sms", "send_transfer_sms"}

\* C1: for a configured attempt count (SMS_MAX_RETRIES >= 0), no dispatch makes
\* more than MAX_ATTEMPTS transport invocations, and a dispatch of either
\* delivery function whose pre-checks passed and whose every transport call
\* failed (no HTTP 200 seen) ends after exactly MAX_ATTEMPTS invocations with
\* the result false.
C1_ExhaustedAfterMaxAttempts ==
    SMS_RETRY_ATTEMPTS >= 0 =>
        /\ invocations <= SMS_RETRY_ATTEMPTS
        /\ (pc = "done" /\ started /\ ~saw200) =>
               (invocations = SMS_RETRY_ATTEMPTS /\ result = "false")

C1_Witness ==
    /\ pc = "done" /\ started /\ ~saw200
    /\ engine = "_send_geezsms"
    /\ SMS_RETRY_ATTEMPTS = 3 /\ invocations = 3
    /\ response.kind = "timeout"
    /\ result = "false"

\* C2: the sleeps of a dispatch are min(2^(n-1), 10) after failed attempt n,
\* the engine sleeps only after a failed attempt n < MAX_ATTEMPTS, never after
\* the final attempt and never after an attempt that returned HTTP 200; with
\* MAX_ATTEMPTS = 3 a success on the third attempt has slept [1, 2].
C2_BackoffOnlyAfterFailedAttempt ==
    /\ \A k \in 1..Len(sleeps) : sleeps[k] = Min(2 ^ (k - 1), BackoffCap)
    /\ pc = "sleeping" =>
          /\ Len(sleeps) = invocations
          /\ invocations < SMS_RETRY_ATTEMPTS
          /\ ~Got200
    /\ pc = "awaiting" => Len(sleeps) = invocations - 1
    /\ (pc = "done" /\ invocations > 0) => Len(sleeps) = invocations - 1
    /\ (pc = "done" /\ SMS_RETRY_ATTEMPTS = 3 /\ invocations = 3 /\ result = "true")
          => sleeps = <<1, 2>>

\* The part of C2 the loop keeps on both paths: the schedule itself, with
\* "failed" read as "the loop body did not return".
BackoffScheduleOfLoop ==
    /\ \A k \in 1..Len(sleeps) : sleeps[k] = Min(2 ^ (k - 1), BackoffCap)
    /\ pc = "sleeping" => (Len(sleeps) = invocations /\ invocations < SMS_RETRY_ATTEMPTS)
    /\ pc = "awaiting" => Len(sleeps) = invocations - 1
    /\ (pc = "done" /\ invocations > 0) => Len(sleeps) = invocations - 1
    /\ (pc = "sleeping" /\ engine = "send_sms") => ~Got200

\* C3: on the generic path an attempt that returns HTTP 200 ends the dispatch
\* at once with true: the invocations made are exactly the n of that attempt,
\* n - 1 sleeps were taken before it and none after it, and the dispatch is
\* never true without an HTTP 200.
C3_GenericSuccessIsImmediate ==
    engine = "send_sms" =>
        /\ saw200 => /\ pc = "done"
                     /\ result = "true"
                     /\ Got200
                     /\ invocations = attempt + 1
                     /\ Len(sleeps) = attempt
        /\ result = "true" => saw200

C3_Witness ==
    /\ engine = "send_sms" /\ pc = "done" /\ result = "true"
    /\ Got200 /\ invocations = 2 /\ sleeps = <<1>>

\* C4: on the named-gateway path an attempt that returns HTTP 200 ends the
\* dispatch with true, whatever the body is.
C4_Geez200EndsDispatch ==
    (engine = "_send_geezsms" /\ saw200) => (pc = "done" /\ result = "true")

\* C5, as stated: with the base URL or the API key missing, a dispatch on
\* either delivery function returns false with zero transport invocations.
C5_Original ==
    (engine # "none" /\ (~Truthy(SAVING_API_URL) \/ ~Truthy(SMS_API_KEY))) =>
        (pc = "done" /\ result = "false" /\ invocations = 0)

\* C5, amended: send_sms with the base URL missing, and _send_geezsms with the
\* API key missing, return false before the loop, with zero transport
\* invocations and no retry.
C5_MissingConfigIsTerminal ==
    /\ (engine = "send_sms" /\ ~Truthy(SAVING_API_URL)) =>
           (pc = "done" /\ result = "false" /\ invocations = 0 /\ ~started
            /\ sleeps = <<>>)
    /\ (engine = "_send_geezsms" /\ ~Truthy(SMS_API_KEY)) =>
           (pc = "done" /\ result = "false" /\ invocations = 0 /\ ~started
            /\ sleeps = <<>>)

C5_Witness ==
    /\ engine = "_send_geezsms" /\ ~Truthy(SMS_API_KEY)
    /\ pc = "done" /\ result = "false" /\ invocations = 0

\* C6: while the base URL names the gateway, a dispatch for a (non-empty)
\* phone that _normalize_ethiopian_phone rejects makes no transport invocation
\* and does not succeed.
C6_UnnormalizableNeverTransmits ==
    (GeezConfigured /\ call.op \in IntentSenders /\ Unnormalizable(call.phone)) =>
        (invocations = 0 /\ result # "true")

\* C7: while the base URL names the gateway, every request that a custom or
\* typed per-intent sender hands to the transport goes to the base URL with
\* the body {token, phone, msg}, never to {base_url}/send_sms.
C7_AllRequestsUseGatewayPath ==
    (GeezConfigured /\ call.op \in IntentSenders) =>
        \A q \in requests :
            q.url = SAVING_API_URL.s /\ DOMAIN q.body = {"token", "phone", "msg"}

\* C8: in send_sms a phone argument that is present (not None) and fails
\* _validate_phone ends the call with false and zero transport invocations;
\* with the phone absent (None), the base URL set and MAX_ATTEMPTS >= 1 the
\* dispatch reaches attempt 1.
C8_PresentPhoneIsValidated ==
    engine = "send_sms" =>
        /\ (call.phone # PyNone /\ ~_validate_phone(call.phone)) =>
               (pc = "done" /\ result = "false" /\ invocations = 0)
        /\ (call.phone = PyNone /\ Truthy(SAVING_API_URL) /\ SMS_RETRY_ATTEMPTS >= 1) =>
               (started /\ invocations >= 1)

\* C9: send_custom_sms and send_notification_sms return false with zero
\* transport invocations when the message is empty after sanitization.
C9_EmptyMessageReturnsFalse ==
    (call.op \in {"send_custom_sms", "send_notification_sms"}
     /\ _validate_message(call.message) = "") =>
        (pc = "done" /\ result = "false" /\ invocations = 0)

\* C10: no public send operation raises to its caller: a finished call has a
\* boolean result.
C10_NeverRaises ==
    /\ result # "raised"
    /\ pc = "done" => result \in {"true", "false"}


\* C11: an attempt that times out is a failed attempt like any other: it never
\* raises and never ends the dispatch with true; it has consumed one of the
\* MAX_ATTEMPTS; when attempts remain it is followed by the back-off
\* min(2^(n-1), 10) and then by attempt n + 1, and when none remain the
\* dispatch ends with false.
C11_TimeoutIsAFailedAttempt ==
    [][/\ (pc = "awaiting" /\ response'.kind = "timeout") =>
              /\ result' \notin {"raised", "true"}
              /\ invocations' = invocations
              /\ invocations <= SMS_RETRY_ATTEMPTS
              /\ IF invocations < SMS_RETRY_ATTEMPTS
                 THEN /\ pc' = "sleeping"
                      /\ result' = "none"
                      /\ sleeps' = Append(sleeps, Min(2 ^ (invocations - 1), BackoffCap))
                 ELSE /\ pc' = "done"
                      /\ result' = "false"
                      /\ sleeps' = sleeps
       /\ (pc = "sleeping" /\ response.kind = "timeout") =>
              /\ pc' = "awaiting"
              /\ invocations' = invocations + 1
              /\ attempt' = attempt + 1
              /\ request' = request
      ]_vars

C11_Witness ==
    /\ pc = "awaiting" /\ response.kind = "timeout"
    /\ invocations = 2 /\ sleeps = <<1>>


\* The attempt number of a dispatch in flight.
AttemptsAdvance ==
    pc \in {"awaiting", "sleeping"} =>
        /\ attempt < SMS_RETRY_ATTEMPTS
        /\ pc' = "awaiting" => attempt' = attempt + 1
        /\ pc' \in {"sleeping", "done"} => attempt' = attempt
        /\ pc' # "idle"

\* C12: once the retry loop of a dispatch has been reached, the dispatch
\* eventually ends with true (Succeeded) or false (Exhausted), given that
\* every transport call ends and every back-off elapses; while it is in
\* flight the attempt number stays below MAX_ATTEMPTS, never decreases, and
\* every new transport call carries the next attempt number.
C12_DispatchTerminates ==
    /\ started ~> (pc = "done" /\ result \in {"true", "false"})
    /\ [][AttemptsAdvance]_vars

C12_Witness ==
    /\ pc = "done" /\ started /\ result = "false"
    /\ SMS_RETRY_ATTEMPTS = MaxRetries /\ invocations = MaxRetries
    /\ Len(sleeps) = MaxRetries - 1


----------------------------------------------------------------------------
(* Batch sender: send_multiple_sms.  Each launched entry is a coroutine of  *)
(* send_custom_sms; asyncio.gather runs them as tasks of one event loop,   *)
(* so each task runs from one await to the next without interleaving.      *)

MaxBatch == 3            \* longest input list explored

PhoneA == "0911223344"
PhoneB == "0922334455"
PhoneC == "0933445566"
BulkMessage == PyStr("Your code is 4821")

Entry(phone, message, additional_data) ==
    [phone |-> phone, message |-> message, additional_data |-> additional_data]

\* The entries of an input list: two recipients, a third whose
\* additional_data is not a dict, an entry without its message, two without
\* a phone (absent, empty) and one whose phone fails _validate_phone.
BulkEntries ==
    {Entry(PyStr(p), BulkMessage, PyNone) : p \in {PhoneA, PhoneB}}
    \cup {Entry(PyStr(PhoneA), PyNone, PyNone),
          Entry(PyNone, BulkMessage, PyNone),
          Entry(PyStr(""), BulkMessage, PyNone),
          Entry(PyStr("12345"), BulkMessage, PyNone),
          Entry(PyStr(PhoneC), BulkMessage, PyStr("promo"))}

Batches == UNION {[1..n -> BulkEntries] : n \in 1..MaxBatch}

BulkUrlValues == {PyStr(GenericUrl), PyStr(GeezUrl)}
BulkKeyValues == {PyStr("tok-5f2a")}
BulkRetryValues == {1, 2}

\* Mutant of Launches: only the phone is looked at.
Launches_PhoneOnly(e) == Truthy(e.phone)

\* `if phone and message`
Launches(e) == Truthy(e.phone) /\ Truthy(e.message)

\* Mutant of ResultKey: every refused entry is stored under 'invalid'.
ResultKey_AlwaysInvalid(e) == "invalid"

\* `phone or 'invalid'`
ResultKey(e) == IF Truthy(e.phone) THEN e.phone.s ELSE "invalid"

\* A flow that ended before its first await.
Ended(i, e, eng, res) ==
    [entry |-> i, phone |-> e.phone, engine |-> eng, pc |-> "done",
     attempt |-> 0, result |-> res, outcomes |-> <<>>]

\* A flow that reached `for attempt in range(SMS_RETRY_ATTEMPTS)`.
Looping(i, e, eng) ==
    IF 0 \in RetryRange
    THEN [entry |-> i, phone |-> e.phone, engine |-> eng, pc |-> "awaiting",
          attempt |-> 0, result |-> "none", outcomes |-> <<>>]
    ELSE Ended(i, e, eng, "false")

\* send_custom_sms(phone, message, message_type, additional_data) up to its
\* first await.  payload.update(additional_data) raises for a str.
Launch(i, e) ==
    IF ~_validate_phone(e.phone) THEN Ended(i, e, "none", "false")
    ELSE IF _validate_message(e.message) = "" THEN Ended(i, e, "none", "false")
    ELSE IF UsesGeez
    THEN IF ~KeyConfigured \/ _normalize_ethiopian_phone(e.phone.s) = PyNone
         THEN Ended(i, e, "_send_geezsms", "false")
         ELSE Looping(i, e, "_send_geezsms")
    ELSE IF Truthy(e.additional_data) /\ IsStr(e.additional_data)
    THEN Ended(i, e, "none", "raised")
    ELSE IF ~UrlConfigured THEN Ended(i, e, "send_sms", "false")
    ELSE Looping(i, e, "send_sms")

\* The list `tasks` after the first loop, from entry i on, each task run to
\* its first await.
RECURSIVE Launched(_, _)
Launched(reqs, i) ==
    IF i > Len(reqs) THEN <<>>
    ELSE (IF Launches(reqs[i]) THEN <<Launch(i, reqs[i])>> ELSE <<>>)
         \o Launched(reqs, i + 1)

\* The dict `results` after the first loop.
Refused(reqs) ==
    [k \in {ResultKey(reqs[i]) : i \in {j \in 1..Len(reqs) : ~Launches(reqs[j])}}
        |-> FALSE]

\* The loop body of a flow for the outcome r of its transport call.
FlowDelivered(f, r) ==
    /\ IsSuccess(r)
    /\ f.engine = "_send_geezsms" => (r.text = "" \/ ~JsonRaises(r.text))

FlowAfterTransport(f, r) ==
    LET g == [f EXCEPT !.outcomes = Append(@, FlowDelivered(f, r))]
    IN IF FlowDelivered(f, r) THEN [g EXCEPT !.pc = "done", !.result = "true"]
       ELSE IF SleepsAfter(f.attempt) THEN [g EXCEPT !.pc = "sleeping"]
       ELSE IF f.attempt + 1 \in RetryRange THEN [g EXCEPT !.attempt = @ + 1]
       ELSE [g EXCEPT !.pc = "done", !.result = "false"]

FlowAfterSleep(f) ==
    IF f.attempt + 1 \in RetryRange
    THEN [f EXCEPT !.pc = "awaiting", !.attempt = @ + 1]
    ELSE [f EXCEPT !.pc = "done", !.result = "false"]

\* Mutant of Gathered: gather is left as soon as one task has ended.
Gathered_FirstCompleted == \E i \in 1..Len(tasks) : tasks[i].pc = "done"

\* `await asyncio.gather(*tasks, return_exceptions=True)` is over.
Gathered == \A i \in 1..Len(tasks) : tasks[i].pc = "done"

\* Mutant of Recorded: the gathered value is stored as it is, and an
\* exception object is truthy.
Recorded_AsGathered(res) == res # "false"

\* `result if not isinstance(result, Exception) else False`
Recorded(res) == res = "true"

\* `for (phone, _), result in zip(tasks, task_results): results[phone] = ...`
RECURSIVE Zip(_, _, _)
Zip(res, ts, i) ==
    IF i > Len(ts) THEN res
    ELSE Zip(With(res, ts[i].phone.s, Recorded(ts[i].result)), ts, i + 1)


BulkInit ==
    /\ SAVING_API_URL \in BulkUrlValues
    /\ SMS_API_KEY \in BulkKeyValues
    /\ SMS_RETRY_ATTEMPTS \in BulkRetryValues
    /\ call = NoArgs
    /\ pc = "idle"
    /\ engine = "none"
    /\ started = FALSE
    /\ attempt = 0
    /\ invocations = 0
    /\ saw200 = FALSE
    /\ sleeps = <<>>
    /\ request = NoRequest
    /\ requests = {}
    /\ response = NoCall
    /\ result = "none"
    /\ logged = <<>>
    /\ sms_requests = <<>>
    /\ tasks = <<>>
    /\ results = <<>>
    /\ returned = PyNone
    /\ client = "none"
    /\ sent = 0

single == <<engine, started, attempt, invocations, saw200, sleeps, request,
            requests, response, result, logged>>

\* send_multiple_sms up to `await asyncio.gather(...)`, or to its return when
\* no task was created.
SendMultipleSms ==
    /\ pc = "idle"
    /\ \E reqs \in Batches :
          /\ call' = Args("send_multiple_sms", PyNone, PyNone, PyNone)
          /\ sms_requests' = reqs
          /\ tasks' = Launched(reqs, 1)
          /\ results' = Refused(reqs)
          /\ pc' = IF Launched(reqs, 1) # <<>> THEN "gathering" ELSE "done"
    /\ UNCHANGED <<config, single, returned, transport>>

\* The transport call one flow awaits completes.
FlowTransportReturns ==
    /\ pc = "gathering"
    /\ \E i \in 1..Len(tasks), r \in TransportOutcomes :
          /\ tasks[i].pc = "awaiting"
          /\ tasks' = [tasks EXCEPT ![i] = FlowAfterTransport(@, r)]
    /\ UNCHANGED <<config, single, call, pc, sms_requests, results, returned, transport>>

\* The back-off one flow sleeps in elapses.
FlowSleepElapsed ==
    /\ pc = "gathering"
    /\ \E i \in 1..Len(tasks) :
          /\ tasks[i].pc = "sleeping"
          /\ tasks' = [tasks EXCEPT ![i] = FlowAfterSleep(@)]
    /\ UNCHANGED <<config, single, call, pc, sms_requests, results, returned, transport>>

\* gather returns; the outcomes are stored under the phones in task order and
\* the dict is returned.
GatherReturns ==
    /\ pc = "gathering"
    /\ Gathered
    /\ results' = Zip(results, tasks, 1)
    /\ pc' = "done"
    /\ UNCHANGED <<config, single, call, sms_requests, tasks, returned, transport>>

BulkNext ==
    \/ SendMultipleSms
    \/ FlowTransportReturns
    \/ FlowSleepElapsed
    \/ GatherReturns
    \/ Return

BulkSpec == BulkInit /\ [][BulkNext]_vars


----------------------------------------------------------------------------
(* Properties of the batch sender. *)

BulkReturned == call.op = "send_multiple_sms" /\ pc = "done"

\* Entry i lacks its phone / lacks its phone or its message (absent or empty).
NoPhone(e) == e.phone \in {PyNone, PyStr("")}
Missing(e) == NoPhone(e) \/ e.message \in {PyNone, PyStr("")}

\* No two entries carry the same phone number.
DistinctPhones(reqs) ==
    \A i, j \in 1..Len(reqs) :
        (i # j /\ ~NoPhone(reqs[i]) /\ ~NoPhone(reqs[j])) => reqs[i].phone # reqs[j].phone

Phoneless(reqs) == {i \in 1..Len(reqs) : NoPhone(reqs[i])}

\* C13, as stated: for an input list in which no two entries carry the same
\* phone number, the returned map has as many entries as the list, the
\* entries that lack a phone being under the key 'invalid'.
C13_OneEntryPerRequest ==
    (BulkReturned /\ DistinctPhones(sms_requests)) =>
        /\ Cardinality(DOMAIN results) = Len(sms_requests)
        /\ Phoneless(sms_requests) # {} => "invalid" \in DOMAIN results

\* C13, amended: the same when, in addition, at most one entry lacks a phone;
\* all entries that lack a phone share the one key 'invalid', whose value is
\* false.
C13_OneEntryPerKey ==
    (BulkReturned /\ DistinctPhones(sms_requests)) =>
        /\ Cardinality(Phoneless(sms_requests)) <= 1 =>
               Cardinality(DOMAIN results) = Len(sms_requests)
        /\ Phoneless(sms_requests) # {} =>
               /\ "invalid" \in DOMAIN results
               /\ ~results["invalid"]
               /\ Cardinality(DOMAIN results)
                     = Len(sms_requests) - Cardinality(Phoneless(sms_requests)) + 1

C13_Witness ==
    /\ BulkReturned /\ DistinctPhones(sms_requests)
    /\ Len(sms_requests) = MaxBatch
    /\ Len(tasks) = MaxBatch - 1
    /\ Cardinality(Phoneless(sms_requests)) = 1
    /\ Cardinality(DOMAIN results) = MaxBatch
    /\ \E k \in DOMAIN results : results[k]


\* The outcome of entry j on its own: false when it is refused, otherwise what
\* its flow returned (an exception counting as false).
EntryOutcome(j) ==
    /\ ~Missing(sms_requests[j])
    /\ \E i \in 1..Len(tasks) : tasks[i].entry = j /\ tasks[i].result = "true"

\* Entry j is the last entry of the input list that carries its phone.
LastOfPhone(j) ==
    \A k \in 1..Len(sms_requests) : k > j => sms_requests[k].phone # sms_requests[j].phone

\* C14: when two entries carry the same phone number, the returned map holds
\* under that phone the outcome of the one that comes last in input order,
\* whether both were launched or one of them lacks its message.
C14_LastWriteWins ==
    BulkReturned =>
        \A i, j \in 1..Len(sms_requests) :
            (/\ i < j
             /\ ~NoPhone(sms_requests[j])
             /\ sms_requests[i].phone = sms_requests[j].phone
             /\ LastOfPhone(j)) =>
                results[sms_requests[j].phone.s] = EntryOutcome(j)

\* The part of C14 the code keeps: among the launched entries of one phone the
\* last one's outcome is stored.
LastLaunchedWins ==
    BulkReturned =>
        \A i \in 1..Len(tasks) :
            (\A k \in 1..Len(tasks) : k > i => tasks[k].phone # tasks[i].phone) =>
                results[tasks[i].phone.s] = (tasks[i].result = "true")


\* C15: an entry that lacks its phone or its message is never launched: no
\* flow, and so no delivery function and no transport call, exists for it, and
\* False is recorded under its key before gather is awaited (and stays unless
\* a launched entry carries the same phone).
C15_MissingEntryIsRefused ==
    call.op = "send_multiple_sms" =>
        \A j \in 1..Len(sms_requests) :
            Missing(sms_requests[j]) =>
                /\ \A i \in 1..Len(tasks) : tasks[i].entry # j
                /\ ResultKey(sms_requests[j]) \in DOMAIN results
                /\ pc = "gathering" => ~results[ResultKey(sms_requests[j])]
                /\ (\A i \in 1..Len(tasks) : tasks[i].phone # sms_requests[j].phone)
                       => ~results[ResultKey(sms_requests[j])]

C15_Witness ==
    /\ BulkReturned
    /\ Len(sms_requests) = 3 /\ Len(tasks) = 1
    /\ tasks[1].result = "true" /\ Len(tasks[1].outcomes) = 2
    /\ \E j \in 1..3 : NoPhone(sms_requests[j])
    /\ \E j \in 1..3 : ~NoPhone(sms_requests[j]) /\ Missing(sms_requests[j])
    /\ Cardinality(DOMAIN results) = 3


\* A step of the batch changes at most one flow, and a flow's step changes
\* neither another flow nor the dict.
OneFlowPerStep ==
    (pc = "gathering" /\ pc' = "gathering") =>
        /\ results' = results
        /\ Len(tasks') = Len(tasks)
        /\ \A i, j \in 1..Len(tasks) :
               (i # j /\ tasks'[i] # tasks[i]) => tasks'[j] = tasks[j]

\* What the returned map holds for the launched entries of a batch with
\* pairwise distinct phones: true exactly when one of the flow's own transport
\* calls was taken as delivered, false for a flow that failed its pre-checks,
\* exhausted its attempts or raised.
OwnOutcomes ==
    (BulkReturned /\ DistinctPhones(sms_requests)) =>
        /\ result # "raised"
        /\ \A i \in 1..Len(tasks) :
               /\ tasks[i].phone.s \in DOMAIN results
               /\ results[tasks[i].phone.s]
                     = (\E k \in 1..Len(tasks[i].outcomes) : tasks[i].outcomes[k])
               /\ tasks[i].result = "raised" => ~results[tasks[i].phone.s]
               /\ Len(tasks[i].outcomes) <= SMS_RETRY_ATTEMPTS

\* C16: in a batch with pairwise distinct phones each launched recipient's
\* entry is the outcome of its own flow under its own transport responses; a
\* failure, exhaustion, timeout or exception of one flow is false for that
\* recipient only, changes no other flow or entry, and the batch still returns
\* its map.
C16_FlowsAreIndependent == []OwnOutcomes /\ [][OneFlowPerStep]_vars

C16_Witness ==
    /\ BulkReturned /\ DistinctPhones(sms_requests)
    /\ Len(tasks) = 3
    /\ \E i \in 1..3 : tasks[i].result = "raised" /\ ~results[tasks[i].phone.s]
    /\ \E i \in 1..3 : /\ tasks[i].outcomes = <<FALSE, TRUE>>
                       /\ results[tasks[i].phone.s]
    /\ \E i \in 1..3 : /\ tasks[i].outcomes = <<FALSE, FALSE>>
                       /\ ~results[tasks[i].phone.s]


\* C17: send_multiple_sms returns only after every flow it launched has
\* ended: when it has returned, no flow is awaiting its transport call or
\* sleeping in a back-off, and every launched phone has a boolean in the map,
\* false unless a flow of that phone returned true.
C17_ReturnsAfterEveryFlow ==
    BulkReturned =>
        \A i \in 1..Len(tasks) :
            /\ tasks[i].pc = "done"
            /\ tasks[i].result \in {"true", "false", "raised"}
            /\ tasks[i].phone.s \in DOMAIN results
            /\ results[tasks[i].phone.s] \in BOOLEAN
            /\ results[tasks[i].phone.s] =>
                   \E k \in 1..Len(tasks) : /\ tasks[k].phone = tasks[i].phone
                                            /\ tasks[k].result = "true"

C17_Witness ==
    /\ BulkReturned
    /\ Len(tasks) = 3
    /\ \A i \in 1..3 : tasks[i].pc = "done" /\ Len(tasks[i].outcomes) = 2
    /\ \E i \in 1..3 : tasks[i].result = "true"
    /\ \E i \in 1..3 : tasks[i].result = "false"


----------------------------------------------------------------------------
(* Properties of one dispatch, continued. *)

\* The request is not rebuilt while the dispatch is in flight.
RequestIsFixed == pc \in {"awaiting", "sleeping"} => request' = request

\* Every call made so far carried the request built before attempt 1.
OneRequest == (requests \subseteq {request}) /\ (invocations > 0 => requests = {request})

\* C18: every transport invocation of one dispatch carries the request built
\* before attempt 1: the same URL and body, and so on the generic path the
\* same reference and the same payload; the request is not rebuilt while the
\* dispatch is in flight.
C18_OneRequestPerDispatch == []OneRequest /\ [][RequestIsFixed]_vars

C18_Witness ==
    /\ pc = "done" /\ engine = "send_sms" /\ call.op = "send_custom_sms"
    /\ invocations = 3 /\ result = "true"
    /\ requests = {request}
    /\ request.body.reference = _generate_reference("CUSTOM", "20250101120000000", "0f0f0f0f")


----------------------------------------------------------------------------
(* The validators called on their own.  An input text is a lead, a body and *)
(* a trail, so that signs, blanks, hyphens and surrounding whitespace meet  *)
(* every shape of number.                                                  *)

Leads == {"", "+", "++", " ", " +", "+ ", "\t", "-"}
Bodies == {"251911223344", "0911223344", "911223344", "91122334", "0911 223 344",
           "0911-223-344", "09112233ab", "251811223344", "2519112233445", "12345", ""}
Trails == {"", " ", "\n"}

PhoneInputs ==
    {PyNone, PyNum(911223344)}
    \cup {PyStr(l \o b \o t) : l \in Leads, b \in Bodies, t \in Trails}

MaxMessage == 400        \* longest message text explored

\* s * n
RECURSIVE Repeat(_, _)
Repeat(s, n) ==
    IF n = 0 THEN ""
    ELSE IF n = 1 THEN s
    ELSE Repeat(s, n \div 2) \o Repeat(s, n - n \div 2)

\* Message texts: short ones, texts of exactly the cap and one more, texts of
\* MaxMessage characters with a blank at the cut, with a run of whitespace
\* across the cut, with long runs of blanks inside, and blanks only.
MessageLeads == {"", "  ", "\n"}
MessageBodies ==
    {"", "Your code is 4821", "Balance:\n 1,500.00 ETB", "a \t\r\n b",
     Repeat("x", MessageCap), Repeat("x", MessageCap + 1), Repeat("x", MaxMessage),
     Repeat("x", TruncateAt - 1) \o " " \o Repeat("y", MaxMessage - TruncateAt),
     Repeat("x", TruncateAt - 1) \o " \n\t " \o Repeat("y", MaxMessage - TruncateAt - 3),
     Repeat("x", TruncateAt) \o " " \o Repeat("y", MaxMessage - TruncateAt - 1),
     Repeat("x", 150) \o Repeat(" ", MaxMessage - MessageCap) \o Repeat("y", 150),
     Repeat("x", 100) \o Repeat(" ", MaxMessage - 150) \o Repeat("y", 50),
     Repeat(" ", MaxMessage)}
MessageTrails == {"", " ", "\t\n", "..."}

MessageInputs ==
    {PyNone, PyNum(7)}
    \cup {PyStr(l \o b \o t) : l \in MessageLeads, b \in MessageBodies, t \in MessageTrails}

ValidatorInit ==
    /\ SAVING_API_URL = PyStr(GenericUrl)
    /\ SMS_API_KEY = PyStr("tok-5f2a")
    /\ SMS_RETRY_ATTEMPTS = 3
    /\ \E op \in {"_validate_phone", "_normalize_ethiopian_phone", "_validate_message"}, phone \in PhoneInputs, message \in MessageInputs :
          /\ op = "_normalize_ethiopian_phone" => IsStr(phone)
          /\ call = IF op = "_validate_message"
                    THEN Args(op, PyNone, message, PyNone)
                    ELSE Args(op, phone, PyNone, PyNone)
    /\ pc = "idle"
    /\ engine = "none"
    /\ started = FALSE
    /\ attempt = 0
    /\ invocations = 0
    /\ saw200 = FALSE
    /\ sleeps = <<>>
    /\ request = NoRequest
    /\ requests = {}
    /\ response = NoCall
    /\ result = "none"
    /\ logged = <<>>
    /\ sms_requests = <<>>
    /\ tasks = <<>>
    /\ results = <<>>
    /\ returned = PyNone
    /\ client = "none"
    /\ sent = 0

\* SMSService._validate_phone(phone) returns its bool.
ValidatePhone ==
    /\ pc = "idle"
    /\ call.op = "_validate_phone"
    /\ pc' = "done"
    /\ result' = IF _validate_phone(call.phone) THEN "true" ELSE "false"
    /\ UNCHANGED transport
    /\ UNCHANGED <<config, call, engine, started, attempt, invocations, saw200,
                   sleeps, request, requests, response, logged, bulk, returned>>

\* SMSService._normalize_ethiopian_phone(phone) returns the text or None.
NormalizeEthiopianPhone ==
    /\ pc = "idle"
    /\ call.op = "_normalize_ethiopian_phone"
    /\ pc' = "done"
    /\ returned' = _normalize_ethiopian_phone(call.phone.s)
    /\ logged' = NormalizeLog(call.phone.s)
    /\ UNCHANGED transport
    /\ UNCHANGED <<config, call, engine, started, attempt, invocations, saw200,
                   sleeps, request, requests, response, result, bulk>>

\* SMSService._validate_message(message) returns the cleaned text.
ValidateMessage ==
    /\ pc = "idle"
    /\ call.op = "_validate_message"
    /\ pc' = "done"
    /\ returned' = PyStr(_validate_message(call.message))
    /\ UNCHANGED transport
    /\ UNCHANGED <<config, call, engine, started, attempt, invocations, saw200,
                   sleeps, request, requests, response, result, logged, bulk>>

\* The caller hands the text it got back to _validate_message once more.
ValidateMessageAgain ==
    /\ pc = "done"
    /\ call.op = "_validate_message"
    /\ call' = [call EXCEPT !.message = returned]
    /\ pc' = "idle"
    /\ UNCHANGED transport
    /\ UNCHANGED <<config, engine, started, attempt, invocations, saw200, sleeps,
                   request, requests, response, result, logged, bulk, returned>>

ValidatorNext ==
    \/ ValidatePhone
    \/ NormalizeEthiopianPhone
    \/ ValidateMessage
    \/ ValidateMessageAgain

ValidatorSpec == ValidatorInit /\ [][ValidatorNext]_vars


----------------------------------------------------------------------------
(* Properties of the validators. *)

\* A text without its spaces and without one leading '+'.
Unsigned(s) ==
    IF StartsWith(Replace(s, " ", ""), "+")
    THEN SubSeq(Replace(s, " ", ""), 2, Len(Replace(s, " ", "")))
    ELSE Replace(s, " ", "")

\* At least 9 characters, every one a digit.
NineDigits(s) == Len(s) >= 9 /\ \A i \in 1..Len(s) : Char(s, i) \in Digits

ValidatedPhone == pc = "done" /\ call.op = "_validate_phone"

Bare(s) ==
    IF StartsWith(Replace(Replace(s, " ", ""), "-", ""), "+")
    THEN SubSeq(Replace(Replace(s, " ", ""), "-", ""), 2,
                Len(Replace(Replace(s, " ", ""), "-", "")))
    ELSE Replace(Replace(s, " ", ""), "-", "")

\* The shapes the prefix rules and the final check accept together: 2519 and
\* eight more characters, 09 and eight more, or 9 and eight more.
Accepted(c) ==
    (Len(c) = 12 /\ StartsWith(c, "2519"))
    \/ (Len(c) = 10 /\ StartsWith(c, "09"))
    \/ (Len(c) = 9 /\ StartsWith(c, "9"))

\* 251 followed by the last nine characters.
Gateway(c) == PyStr("251" \o SubSeq(c, Len(c) - 8, Len(c)))

NormalizedPhone == pc = "done" /\ call.op = "_normalize_ethiopian_phone"

\* C20, as stated: after stripping spaces, hyphens and an optional leading
\* '+', a text starting with 251 is kept, a leading 0 is replaced by 251, nine
\* characters starting with 9 get 251 in front, any other shape is invalid,
\* and the mapped value is accepted only if it starts with 2519 and has
\* exactly 12 characters.
C20_NormalizesByPrefix ==
    NormalizedPhone =>
        returned = IF Accepted(Bare(call.phone.s))
                   THEN Gateway(Bare(call.phone.s))
                   ELSE PyNone

\* C20, amended: the same after the whitespace around the text (spaces, tabs,
\* newlines) has been removed as well; 0911223344, 911223344 and 251911223344
\* all give 251911223344 and 12345 is invalid.
C20_NormalizesTrimmedByPrefix ==
    NormalizedPhone =>
        /\ returned = IF Accepted(Bare(Strip(call.phone.s)))
                      THEN Gateway(Bare(Strip(call.phone.s)))
                      ELSE PyNone
        /\ returned # PyNone => (Len(returned.s) = 12 /\ StartsWith(returned.s, "2519"))
        /\ call.phone \in {PyStr("0911223344"), PyStr("911223344"), PyStr("251911223344")}
               => returned = PyStr("251911223344")
        /\ call.phone = PyStr("12345") => returned = PyNone

C20_Witness ==
    /\ NormalizedPhone
    /\ call.phone = PyStr("\t0911-223-344 ")
    /\ returned = PyStr("251911223344")


\* C21: whatever the input text, _normalize_ethiopian_phone returns None or a
\* text of exactly 12 decimal digits that begins with 2519: no '+', no
\* separator, no character that is not a digit.
C21_ResultIsTwelveDigits ==
    NormalizedPhone =>
        \/ returned = PyNone
        \/ /\ IsStr(returned)
           /\ Len(returned.s) = 12
           /\ StartsWith(returned.s, "2519")
           /\ IsDigit(returned.s)


SanitizedMessage == pc = "done" /\ call.op = "_validate_message" /\ IsStr(call.message)

\* The text _validate_message returned is a text it returns unchanged.
SanitizedIsFixedPoint ==
    SanitizedMessage => _validate_message(returned) = returned.s

\* A call whose argument is the text the previous call returned returns it
\* again.
ResanitizeKeeps ==
    (/\ pc = "idle" /\ call.op = "_validate_message"
     /\ IsStr(call.message) /\ call.message = returned) =>
        returned' = returned

\* C22: _validate_message is idempotent on texts: cleaning a cleaned text
\* changes nothing, also when the text was cut at 297 characters and when the
\* 297th character of the cleaned text is a blank.
C22_SanitizeIsIdempotent == []SanitizedIsFixedPoint /\ [][ResanitizeKeeps]_vars

C22_Witness ==
    /\ SanitizedMessage
    /\ call.message = returned
    /\ Len(returned.s) = MessageCap
    /\ Char(returned.s, TruncateAt) = " "
    /\ returned.s = Repeat("x", TruncateAt - 1) \o " ..."

\* The text after strip() and the collapse of its whitespace runs.
Cleaned(s) == CollapseWhitespace(Strip(s))

\* C23, as stated: the text returned never has more than 300 characters, and
\* for every input text of more than 300 characters it has exactly 300: the
\* first 297 characters of the cleaned text and the marker "...".
C23_LongInputIsCut ==
    SanitizedMessage =>
        /\ Len(returned.s) <= MessageCap
        /\ Len(call.message.s) > MessageCap =>
               /\ Len(returned.s) = MessageCap
               /\ returned.s = SubSeq(Cleaned(call.message.s), 1, TruncateAt) \o "..."

\* C23, amended: the cap is applied to the cleaned text: when the cleaned
\* text has more than 300 characters the result is its first 297 characters
\* and the marker "...", 300 characters in all; otherwise the result is the
\* cleaned text itself.
C23_LongCleanedTextIsCut ==
    SanitizedMessage =>
        /\ Len(returned.s) <= MessageCap
        /\ IF Len(Cleaned(call.message.s)) > MessageCap
           THEN /\ Len(returned.s) = MessageCap
                /\ returned.s = SubSeq(Cleaned(call.message.s), 1, TruncateAt) \o "..."
           ELSE returned.s = Cleaned(call.message.s)
        /\ call.message.s = Repeat("x", MaxMessage) =>
               returned.s = Repeat("x", TruncateAt) \o "..."
        /\ call.message.s = "a \t\r\n b" => returned.s = "a b"

C23_Witness ==
    /\ SanitizedMessage
    /\ call.message.s = "\n" \o Repeat("x", 150) \o Repeat(" ", MaxMessage - MessageCap)
                             \o Repeat("y", 150) \o "\t\n"
    /\ Len(call.message.s) > MaxMessage
    /\ returned.s = Repeat("x", 150) \o " " \o Repeat("y", TruncateAt - 151) \o "..."
    /\ Len(returned.s) = MessageCap


----------------------------------------------------------------------------
(* Properties of the log records. *)

\* The records of the GeezSMS loop name the phone by its first eight
\* characters only.
GatewayRecordsAreMasked ==
    (engine = "_send_geezsms" /\ started) =>
        \A k \in 1..Len(logged) :
            logged[k].text \in {"", Prefix(request.body.phone.s, 8) \o "****"}

\* C24: no log record of a call made for a phone holds that phone in full,
\* as it was passed or as the gateway number it normalizes to; a phone shows
\* in a record cut to a prefix only.
C24_NoFullPhoneInLogs ==
    (IsStr(call.phone) /\ call.phone.s # "") =>
        \A k \in 1..Len(logged) :
            /\ ~Contains(logged[k].text, call.phone.s)
            /\ _normalize_ethiopian_phone(call.phone.s) # PyNone =>
                   ~Contains(logged[k].text, _normalize_ethiopian_phone(call.phone.s).s)


----------------------------------------------------------------------------
(* Properties of the payloads. *)

\* The per-intent senders of the model and the keys of their optional
\* parameters.
Builders == {"send_deposit_sms", "send_withdrawal_sms", "send_transfer_sms",
             "send_joint_invitation_sms"}
OptionalKeys == {"customer_name", "fee_amount", "recipient_name", "product_name",
                 "expires_days"}

\* A request built by a per-intent sender is at hand.
Built == call.op \in Builders /\ started

\* The builders other than send_joint_invitation_sms emit the key of an
\* optional parameter only with a value, and the fee only when it is above
\* zero.
OptionalKeysOfTransactionSenders ==
    (Built /\ call.op # "send_joint_invitation_sms") =>
        /\ \A k \in OptionalKeys \cap DOMAIN request.body.payload :
               request.body.payload[k] \notin {PyNone, PyStr("")}
        /\ call.op = "send_withdrawal_sms" =>
               ("fee_amount" \in DOMAIN request.body.payload
                   <=> (Truthy(call.fee_amount) /\ FloatOf(call.fee_amount).n > 0))

\* C25: in the payload a per-intent sender builds, the key of an optional
\* parameter is present iff the parameter was given a value that is neither
\* None nor empty (the fee only when above zero), and no such key holds None
\* or an empty text.
C25_OptionalKeysOnlyWhenSupplied ==
    Built =>
        /\ \A k \in OptionalKeys \cap DOMAIN request.body.payload :
               request.body.payload[k] \notin {PyNone, PyStr("")}
        /\ call.op = "send_withdrawal_sms" =>
               ("fee_amount" \in DOMAIN request.body.payload
                   <=> (Truthy(call.fee_amount) /\ FloatOf(call.fee_amount).n > 0))
        /\ call.op = "send_joint_invitation_sms" =>
               /\ "product_name" \in DOMAIN request.body.payload
                      <=> call.product_name \notin {PyNone, PyStr("")}
               /\ "expires_days" \in DOMAIN request.body.payload
                      <=> call.expires_days \notin {PyNone, PyStr("")}


----------------------------------------------------------------------------
(* Properties of the named-gateway path. *)

\* C26: with the gateway URL and the API key configured (and at least one
\* attempt allowed), send_custom_sms with a message that is not blank and a
\* phone _normalize_ethiopian_phone accepts, hyphenated ones included, passes
\* the pre-checks and makes a first transport call with the normalized phone.
C26_NormalizablePhoneIsAttempted ==
    (/\ call.op = "send_custom_sms"
     /\ GeezConfigured /\ Truthy(SMS_API_KEY) /\ SMS_RETRY_ATTEMPTS >= 1
     /\ _validate_message(call.message) # ""
     /\ IsStr(call.phone)
     /\ _normalize_ethiopian_phone(call.phone.s) # PyNone) =>
        /\ started
        /\ engine = "_send_geezsms"
        /\ invocations >= 1
        /\ request.body.phone = _normalize_ethiopian_phone(call.phone.s)

\* The same for the phones that also pass _validate_phone.
ValidNormalizablePhoneIsAttempted ==
    (/\ call.op = "send_custom_sms"
     /\ GeezConfigured /\ Truthy(SMS_API_KEY) /\ SMS_RETRY_ATTEMPTS >= 1
     /\ _validate_message(call.message) # ""
     /\ _validate_phone(call.phone)
     /\ _normalize_ethiopian_phone(call.phone.s) # PyNone) =>
        /\ started
        /\ engine = "_send_geezsms"
        /\ invocations >= 1
        /\ request.body.phone = _normalize_ethiopian_phone(call.phone.s)


----------------------------------------------------------------------------
(* The transport on its own: one call of make_rest_request, from the         *)
(* `async with` that opens the client to the return through its __aexit__.  *)

HttpStatuses == {OK, 201, 204, 400, 404, 500, 503}
HttpTexts == {"", JsonBody, TextBody}

\* What `await client.request(...)` can raise.
ClientFaults == {"ConnectError", "ReadTimeout", "TypeError"}

Raised(fault) == [kind |-> "raised", status |-> 0, text |-> fault]
Cancelled == [kind |-> "cancelled", status |-> 0, text |-> ""]

\* The arguments the two delivery functions pass.
TransportRequests ==
    {[method |-> "POST", url |-> GenericUrl \o "/send_sms",
      body |-> [reference |-> r, payload |-> p]] :
         r \in CallerReferences, p \in DirectPayloads}
    \cup {[method |-> "POST", url |-> GeezUrl,
           body |-> [token |-> PyStr("tok-5f2a"), phone |-> PyStr("251911223344"),
                     msg |-> PyStr(m)]] : m \in {"hello", "Your code is 4821"}}

TransportInit ==
    /\ SAVING_API_URL = PyStr(GenericUrl)
    /\ SMS_API_KEY = PyStr("tok-5f2a")
    /\ SMS_RETRY_ATTEMPTS = 3
    /\ call = Args("make_rest_request", PyNone, PyNone, PyNone)
    /\ request \in TransportRequests
    /\ pc = "idle"
    /\ engine = "none"
    /\ started = FALSE
    /\ attempt = 0
    /\ invocations = 0
    /\ saw200 = FALSE
    /\ sleeps = <<>>
    /\ requests = {}
    /\ response = NoCall
    /\ result = "none"
    /\ logged = <<>>
    /\ sms_requests = <<>>
    /\ tasks = <<>>
    /\ results = <<>>
    /\ returned = PyNone
    /\ client = "none"
    /\ sent = 0

rest == <<config, call, engine, started, attempt, invocations, saw200, sleeps,
          request, bulk>>

\* `async with httpx.AsyncClient() as client:` opens the client and
\* `await client.request(method, url, headers=headers, json=data)` is issued.
ClientRequest ==
    /\ pc = "idle"
    /\ call.op = "make_rest_request"
    /\ client' = "open"
    /\ sent' = sent + 1
    /\ requests' = requests \cup {request}
    /\ pc' = "requesting"
    /\ UNCHANGED <<rest, response, result, logged, returned>>

\* The request is answered: `return response`, whatever the status.
RequestReturns ==
    /\ pc = "requesting"
    /\ \E status \in HttpStatuses, text \in HttpTexts :
          response' = Response(status, text)
    /\ pc' = "closing"
    /\ UNCHANGED <<rest, requests, result, logged, returned, transport>>

\* The request raises: `except Exception` logs the error and returns None.
RequestRaises ==
    /\ pc = "requesting"
    /\ \E fault \in ClientFaults :
          /\ response' = Raised(fault)
          /\ logged' = <<Log("error", "request_failed", fault)>>
    /\ pc' = "closing"
    /\ UNCHANGED <<rest, requests, result, returned, transport>>

\* The per-attempt timeout of wait_for cancels the call while the request is
\* awaited: CancelledError is not an Exception and leaves the try block.
RequestCancelled ==
    /\ pc = "requesting"
    /\ response' = Cancelled
    /\ pc' = "closing"
    /\ UNCHANGED <<rest, requests, result, logged, returned, transport>>

\* Mutant of ClientCloses: the client is closed after an answered request
\* only, as `await client.aclose()` placed behind the request would do.
ClientCloses_OnSuccessOnly ==
    /\ pc = "closing"
    /\ client' = IF response.kind = "response" THEN "closed" ELSE client
    /\ returned' = IF response.kind = "response" THEN response ELSE PyNone
    /\ result' = IF response.kind = "cancelled" THEN "raised" ELSE "none"
    /\ pc' = "done"
    /\ UNCHANGED <<rest, requests, response, logged, sent>>

\* __aexit__ of the `async with` closes the client; then the value is
\* returned, or the CancelledError goes on to wait_for.
ClientCloses ==
    /\ pc = "closing"
    /\ client' = "closed"
    /\ returned' = IF response.kind = "response" THEN response ELSE PyNone
    /\ result' = IF response.kind = "cancelled" THEN "raised" ELSE "none"
    /\ pc' = "done"
    /\ UNCHANGED <<rest, requests, response, logged, sent>>

TransportNext ==
    \/ ClientRequest
    \/ RequestReturns
    \/ RequestRaises
    \/ RequestCancelled
    \/ ClientCloses

TransportSpec == TransportInit /\ [][TransportNext]_vars

\* C28: one call of make_rest_request issues at most one HTTP request and
\* never a second one; it returns the response as it came for every status,
\* None when the request raised, and on every way out (a response of any
\* status, an exception, the cancellation by the per-attempt timeout) the
\* client it opened is closed when control returns.
C28_TransportIsOneRequest ==
    call.op = "make_rest_request" =>
        /\ sent <= 1
        /\ Cardinality(requests) <= 1
        /\ pc = "idle" => (client = "none" /\ sent = 0)
        /\ pc \in {"requesting", "closing"} => (client = "open" /\ sent = 1)
        /\ pc = "done" =>
               /\ sent = 1
               /\ requests = {request}
               /\ client = "closed"
               /\ response.kind = "response" =>
                      (returned = response /\ result = "none" /\ logged = <<>>)
               /\ response.kind = "raised" => (returned = PyNone /\ result = "none")
               /\ response.kind = "cancelled" => result = "raised"

C28_Witness ==
    /\ call.op = "make_rest_request" /\ pc = "done"
    /\ response = Cancelled
    /\ client = "closed" /\ sent = 1
    /\ result = "raised"


----------------------------------------------------------------------------
(* Properties of the log levels. *)

ErrorRecords == {k \in 1..Len(logged) : logged[k].level = "error"}

\* The part of C29 the loops keep: an attempt answered with a status other
\* than 200 and followed by a retry leaves a warning and no error record.
Non200IsAWarning ==
    (started /\ pc = "sleeping" /\ response.kind = "response" /\ response.status # OK) =>
        (ErrorRecords = {} /\ \E k \in 1..Len(logged) : logged[k].level = "warning")

\* C29: a failed attempt (a status other than 200, no response, a timeout, a
\* transport exception) is logged at warning level; a failed attempt that is
\* followed by a retry leaves no error-level record, and a dispatch that ends
\* exhausted leaves exactly one, the record of the exhaustion.
C29_ErrorOnlyOnExhaustion ==
    started =>
        /\ pc = "sleeping" =>
               /\ \E k \in 1..Len(logged) : logged[k].level = "warning"
               /\ ErrorRecords = {}
        /\ (pc = "done" /\ result = "false") =>
               /\ Cardinality(ErrorRecords) = 1
               /\ logged[Len(logged)].event = "all_attempts_failed"


----------------------------------------------------------------------------
(* Properties of the order of the attempts. *)

\* The transport call in flight, or the one just ended, is attempt number
\* `invocations`: the loop variable counts from 0.
NumberedInOrder ==
    pc \in {"awaiting", "sleeping"} => (started /\ invocations = attempt + 1)

\* A transport call is started by the dispatch request (attempt 1) or by the
\* end of a back-off sleep (the next attempt), never while a call is awaited.
OneCallAtATime ==
    /\ (invocations' # invocations /\ pc' # "idle") =>
           /\ invocations' = invocations + 1
           /\ pc' = "awaiting"
           /\ pc \in {"idle", "sleeping"}
           /\ pc = "idle" => (invocations = 0 /\ attempt' = 0)
           /\ pc = "sleeping" =>
                  (attempt' = attempt + 1 /\ Len(sleeps) = invocations)
    /\ pc = "awaiting" => (invocations' = invocations \/ pc' = "idle")
    /\ pc = "awaiting" => attempt' = attempt
    /\ (pc = "sleeping" /\ pc' # "sleeping") => response.kind # "nocall"

\* C30: within one dispatch at most one transport call is in flight: attempt
\* n + 1 starts only after attempt n has ended (a response, None or a timeout)
\* and the back-off sleep after it has elapsed, and the attempts are numbered
\* 1, 2, ... without a gap or a repetition.
C30_OneCallInFlight == []NumberedInOrder /\ [][OneCallAtATime]_vars

C30_Witness ==
    /\ engine = "_send_geezsms" /\ pc = "awaiting"
    /\ invocations = 3 /\ attempt = 2
    /\ sleeps = <<1, 2>>
    /\ response.kind = "timeout"


----------------------------------------------------------------------------
(* Properties of the payload of send_custom_sms. *)

\* send_custom_sms has sent a request on the generic path.
CustomRequestSent ==
    /\ call.op = "send_custom_sms" /\ engine = "send_sms"
    /\ started /\ invocations > 0 /\ request \in requests

\* C31: in every request send_custom_sms sends on the generic path, the
\* payload field 'phone' is the phone argument that passed _validate_phone,
\* 'message' is the sanitized message and 'type' is the message_type argument,
\* whatever additional_data holds.
C31_CoreFieldsAreTheArguments ==
    CustomRequestSent =>
        /\ request.body.payload.phone = call.phone
        /\ request.body.payload.message = PyStr(_validate_message(call.message))
        /\ request.body.payload.type \in MessageTypes


----------------------------------------------------------------------------
(* Properties of the configured number of attempts. *)

\* C32: for every configured SMS_RETRY_ATTEMPTS, zero and negative values
\* included, a dispatch whose pre-checks pass makes its first transport call
\* when it starts, so a dispatch that returns false after its pre-checks
\* passed has made at least one transport call.
C32_AttemptsBeforeExhaustion ==
    started =>
        /\ invocations >= 1
        /\ (pc = "done" /\ result = "false") => request \in requests

=============================================================================
